---- MODULE Spec2Model ----
(***************************************************************************)
(* The Streamlit page of src/main.py as a state machine.                   *)
(*                                                                         *)
(* Streamlit runs the whole script again on every interaction.  One action *)
(* of the model is one interaction: the widget whose value the user        *)
(* changes, then one complete run of the script (Rerun).  What survives    *)
(* between runs is the widget values, st.session_state, the                *)
(* st.cache_resource cache and the module globals of the client libraries  *)
(* (genai.configure, openai.api_key).  What a run puts on the page is      *)
(* recorded in the output variables.                                       *)
(*                                                                         *)
(* Text is a sequence of chunks; a chunk is a character or a literal of    *)
(* the source kept whole.                                                  *)
(***************************************************************************)
EXTENDS Integers, Sequences, FiniteSets, TLC

\* ------------------------------------------------------------------ bounds

MaxHeaderLines == 2  \* most lines of a column header
MaxCols == 2         \* widest table
MaxRows == 1         \* longest table
MaxQuestionLen == 2  \* longest question, in characters

\* ------------------------------------------------------------ plain values

None == "None"

NL == "\n"

\* Python truthiness of an optional string: None and "" are false.
Truthy(s) == s # None /\ s # ""

\* os.getenv(...) or "" : the default of a credential field.
OrEmpty(s) == IF Truthy(s) THEN s ELSE ""

Gemini == "Gemini"
OpenAI == "OpenAI GPT-4o"
Models == {Gemini, OpenAI}

\* The secrets a user may type or the environment may hold.
Keys == {"key1", "key2"}

RECURSIVE Repeat(_, _)
Repeat(c, n) == IF n <= 0 THEN <<>> ELSE <<c>> \o Repeat(c, n - 1)

RECURSIVE Concat(_)
Concat(ss) == IF ss = <<>> THEN <<>> ELSE Head(ss) \o Concat(Tail(ss))

Max(a, b) == IF a >= b THEN a ELSE b

RECURSIVE MaxOf(_)
MaxOf(ns) == IF ns = <<>> THEN 0 ELSE Max(Head(ns), MaxOf(Tail(ns)))

\* Strings over an alphabet, of length lo..hi.
StringsOver(alphabet, lo, hi) == UNION {[1..n -> alphabet] : n \in lo..hi}

\* sub occurs in s as a contiguous run.
Occurs(sub, s) ==
    \E i \in 0..(Len(s) - Len(sub)) :
        \A j \in 1..Len(sub) : s[i + j] = sub[j]

\* ------------------------------------------------- Data Loader (line 95)

\* A DataFrame: the column headers and the rows, every cell as its text.
EmptyTable == [columns |-> <<>>, rows |-> <<>>]

TableA ==
    [columns |-> << <<"i", "d">>, <<"t", "e", "x", "t">> >>,
     rows |-> << << <<"7">>, <<"h", "e", "l", "l", "o", "!", "!">> >> >>]

TableB ==
    [columns |-> << <<"d", "a", "y">>, <<"v", NL, "w">>, <<"n">> >>,
     rows |-> << << <<"m", "o">>, <<"4", "2">>, <<"3">> >>,
                 << <<"t", "u">>, <<"9">>, <<"1", "0">> >> >>]

\* An upload: its name, whether it is a workbook pandas can read, and the
\* table it then holds.  NoFile is the uploader with nothing in it.
NoFile == [name |-> None, parses |-> FALSE, df |-> EmptyTable]
FileA == [name |-> "a.xlsx", parses |-> TRUE, df |-> TableA]
FileB == [name |-> "b.xlsx", parses |-> TRUE, df |-> TableB]
FileBad == [name |-> "bad.xlsx", parses |-> FALSE, df |-> EmptyTable]
Files == {FileA, FileB, FileBad}

\* pd.read_excel(uploaded_file): the DataFrame, or the exception it raises.
read_excel(file) ==
    IF file.parses THEN [raised |-> FALSE, df |-> file.df]
    ELSE [raised |-> TRUE, df |-> EmptyTable]

\* --------------------------------------------- Prompt Composer (143-145)

Digits == {"0", "1", "2", "3", "4", "5", "6", "7", "8", "9"}

\* tabulate reads a cell that parses as a number as a number.
IsNumber(cell) == cell # <<>> /\ \A i \in 1..Len(cell) : cell[i] \in Digits

RECURSIVE SplitLines(_)
\* The lines of a text, split at every line break.
SplitLines(s) ==
    IF \A i \in 1..Len(s) : s[i] # NL THEN <<s>>
    ELSE LET k == CHOOSE i \in 1..Len(s) :
                      s[i] = NL /\ \A j \in 1..(i - 1) : s[j] # NL
         IN <<SubSeq(s, 1, k - 1)>> \o SplitLines(SubSeq(s, k + 1, Len(s)))

\* The width of a cell: that of its longest line.
CellWidth(s) == LET lines == SplitLines(s) IN MaxOf([i \in 1..Len(lines) |-> Len(lines[i])])

PadRight(s, w) == s \o Repeat(" ", w - Len(s))
PadLeft(s, w) == Repeat(" ", w - Len(s)) \o s
Align(s, right, w) == IF right THEN PadLeft(s, w) ELSE PadRight(s, w)

\* The n-th line of a cell, blank when the cell has fewer lines.
LineOf(s, n) == LET lines == SplitLines(s) IN IF n <= Len(lines) THEN lines[n] ELSE <<>>

\* One physical line of the pipe layout: | cell | cell |
PipeRow(cells) ==
    <<"|">> \o Concat([i \in 1..Len(cells) |-> <<" ">> \o cells[i] \o <<" ", "|">>])

\* The rule under the header: |:----|----:|  (the colon marks the alignment).
PipeRule(widths, rights) ==
    <<"|">> \o Concat([i \in 1..Len(widths) |->
        (IF rights[i] THEN Repeat("-", widths[i] + 1) \o <<":">>
                      ELSE <<":">> \o Repeat("-", widths[i] + 1)) \o <<"|">>])

\* A table row, laid out on as many physical lines as its tallest cell has.
PipeRowLines(cells, widths, rights) ==
    LET n == MaxOf([i \in 1..Len(cells) |-> Len(SplitLines(cells[i]))])
    IN [k \in 1..n |->
           PipeRow([i \in 1..Len(cells) |-> Align(LineOf(cells[i], k), rights[i], widths[i])])]

RECURSIVE JoinLines(_)
JoinLines(lines) ==
    IF lines = <<>> THEN <<>>
    ELSE IF Len(lines) = 1 THEN lines[1]
    ELSE lines[1] \o <<NL>> \o JoinLines(Tail(lines))

\* to_markdown with the header row left out.
to_markdown_without_header(df) ==
    LET n == Len(df.columns)
        rights == [i \in 1..n |->
                      df.rows # <<>> /\ \A r \in 1..Len(df.rows) : IsNumber(df.rows[r][i])]
        widths == [i \in 1..n |->
                      Max(CellWidth(df.columns[i]) + 2,
                          MaxOf([r \in 1..Len(df.rows) |-> CellWidth(df.rows[r][i])]))]
    IN JoinLines(<<PipeRule(widths, rights)>>
                 \o Concat([r \in 1..Len(df.rows) |-> PipeRowLines(df.rows[r], widths, rights)]))

\* df.to_markdown(index=False): tabulate's "pipe" layout with the column names
\* as headers.  A column of numbers is right-aligned, any other left-aligned;
\* a column is as wide as its widest cell and at least its header plus two.
to_markdown(df) ==
    LET n == Len(df.columns)
        rights == [i \in 1..n |->
                      df.rows # <<>> /\ \A r \in 1..Len(df.rows) : IsNumber(df.rows[r][i])]
        widths == [i \in 1..n |->
                      Max(CellWidth(df.columns[i]) + 2,
                          MaxOf([r \in 1..Len(df.rows) |-> CellWidth(df.rows[r][i])]))]
    IN JoinLines(PipeRowLines(df.columns, widths, rights)
                 \o <<PipeRule(widths, rights)>>
                 \o Concat([r \in 1..Len(df.rows) |-> PipeRowLines(df.rows[r], widths, rights)]))

Preamble == "Social media data:\n"
QuestionLabel == "\n\nUser question: "

\* f"Social media data:\n{data_str}\n\nUser question: {user_prompt}"
full_prompt(data_str, question) ==
    <<Preamble>> \o data_str \o <<QuestionLabel>> \o question

\* ------------------------------------------ document export (153-165)

TAB == "\t"
CR == "\r"
FF == "\f"

\* Characters XML 1.0 cannot hold: the control characters other than tab,
\* line feed and carriage return.
XmlIncompatible == {FF}

HeadingText == "Social Media Data Analysis"

\* What a run of a paragraph holds for one character of the text given to
\* add_paragraph: a tab and a line break become elements of their own.
RunElement(c) ==
    CASE c = TAB -> "<w:tab/>"
      [] c \in {NL, CR} -> "<w:br/>"
      [] OTHER -> c

\* The text of a paragraph as the document gives it back.
ElementText(e) ==
    CASE e = "<w:tab/>" -> TAB
      [] e = "<w:br/>" -> NL
      [] OTHER -> e

ParagraphText(par) == [i \in 1..Len(par.run) |-> ElementText(par.run[i])]

\* doc.add_heading(text, 0): a paragraph in the Title style.
add_heading(doc, text) == Append(doc, [style |-> "Title", run |-> <<text>>])

\* doc.add_paragraph(text): one body paragraph; raises ValueError when the
\* text holds a character XML cannot.
add_paragraph_raises(text) == \E i \in 1..Len(text) : text[i] \in XmlIncompatible

add_paragraph(doc, text) ==
    Append(doc, [style |-> "Normal", run |-> [i \in 1..Len(text) |-> RunElement(text[i])]])

\* Lines 153-158: Document(), the heading, the paragraph, save.
ExportDocx(content) ==
    IF add_paragraph_raises(content)
    THEN [raised |-> TRUE, doc |-> <<>>]
    ELSE [raised |-> FALSE, doc |-> add_paragraph(add_heading(<<>>, HeadingText), content)]

\* ------------------------------------------------------------ the session

VARIABLES
    DEFAULT_GOOGLE_API_KEY,  \* os.getenv("GOOGLE_API_KEY"), line 14
    DEFAULT_OPENAI_API_KEY,  \* os.getenv("OPENAI_API_KEY"), line 15
    model_choice,            \* the selectbox, line 27
    key_text,                \* the text of the credential field on the page
    uploaded_file,           \* the file_uploader, line 85 (NoFile: no file)
    user_prompt,             \* the text_area, line 105
    session_state,           \* st.session_state: a mapping, "df" its only key
    genai_key,               \* what genai.configure was last given, line 56
    openai_key,              \* openai.api_key, line 58
    agent_cache,             \* st.cache_resource of initialize_agent: its keys
    widgets,                 \* the widgets the last run rendered
    clicked,                 \* the last run was started by the analyze button
    warnings,                \* st.warning of the last run, in order
    errors,                  \* st.error of the last run, in order
    stopped,                 \* the last run ended in st.stop()
    crashed,                 \* the last run ended in an uncaught exception
    request,                 \* the backend calls of the last run
    response,                \* what agent.run did in the last run, if called
    shown,                   \* st.markdown(response.content) of the last run
    download                 \* the document behind the download button

inputs == <<DEFAULT_GOOGLE_API_KEY, DEFAULT_OPENAI_API_KEY, model_choice, key_text,
            uploaded_file, user_prompt>>
held == <<session_state, genai_key, openai_key, agent_cache>>
outputs == <<widgets, clicked, warnings, errors, stopped, crashed, request, response,
             shown, download>>
vars == <<inputs, held, outputs>>

\* The pre-filled question of the text_area (lines 107-127), kept whole.
DefaultPrompt == <<"Key Analytical Outputs Required: ...">>

\* What the user may leave in the question field.
Questions == {<<>>, DefaultPrompt, <<"w", "h", "y", "?">>}

\* What the backend may answer: an exception, or a text: the empty one, one
\* of each kind of character, and one of several lines.
TextChars == {"x", NL, TAB, CR, FF}
Texts == {<<>>, <<"o", "k", NL, "o", "k">>} \cup {<<c>> : c \in TextChars}
Backends ==
    {[raised |-> TRUE, content |-> <<>>]}
    \cup {[raised |-> FALSE, content |-> t] : t \in Texts}

\* The messages of the page.
NeedKeySidebar == "Please enter the API key for the selected model in the sidebar to proceed."
NeedFile == "Please upload an Excel file first."
NeedPrompt == "Please enter a question or prompt to analyze the data."
NeedKey == "Please enter the API key for the selected model."
ReadError == "Error reading Excel file"
AnalysisError == "An error occurred during analysis"

\* Lines 34-50: the two credentials the script derives from the field.
api_key_of(choice, text) == IF choice = Gemini THEN text ELSE None
openai_api_key_of(choice, text) == IF choice = Gemini THEN None ELSE text

\* The value a credential field has when it is first rendered (lines 38, 46).
DefaultKeyText(choice, google, openai) ==
    IF choice = Gemini THEN OrEmpty(google) ELSE OrEmpty(openai)

\* Line 52 testing for None only: an emptied field passes.
NoCredentialIsNone(api_key, openai_api_key) == api_key = None /\ openai_api_key = None

\* Line 52 with "or" for "and".
NoCredentialEither(api_key, openai_api_key) == ~Truthy(api_key) \/ ~Truthy(openai_api_key)

\* Line 52.
NoCredential(api_key, openai_api_key) == ~Truthy(api_key) /\ ~Truthy(openai_api_key)

\* Lines 55-58: the module globals of the two client libraries.
ConfigureGenai(choice, api_key, old) ==
    IF choice = Gemini /\ Truthy(api_key) THEN api_key ELSE old
ConfigureOpenai(choice, api_key, openai_api_key, old) ==
    IF ~(choice = Gemini /\ Truthy(api_key)) /\ choice = OpenAI /\ Truthy(openai_api_key)
    THEN openai_api_key ELSE old

\* Lines 60-82: the agent for the arguments; st.cache_resource keeps one per
\* argument tuple.  Only the model and its credential tell two agents apart.
initialize_agent(choice, api_key, openai_api_key) ==
    IF choice = Gemini
    THEN [model |-> "gemini-2.0-flash", api_key |-> api_key]
    ELSE [model |-> "gpt-4o", api_key |-> openai_api_key]

\* Lines 92-98: the table held after the upload block, and whether reading failed.
LoadTable(file, state) ==
    IF file # NoFile /\ "df" \notin DOMAIN state
    THEN IF read_excel(file).raised
         THEN [state |-> state, raised |-> TRUE]
         ELSE [state |-> [k \in {"df"} |-> read_excel(file).df], raised |-> FALSE]
    ELSE [state |-> state, raised |-> FALSE]

\* Lines 134-140 without the test of the question.
AnalyzeBranchNoPromptTest(file, question, api_key, openai_api_key) ==
    IF file = NoFile THEN NeedFile
    ELSE IF ~(Truthy(api_key) \/ Truthy(openai_api_key)) THEN NeedKey
    ELSE "analyze"

\* Lines 134-140: which branch the analyze button takes.
AnalyzeBranch(file, question, api_key, openai_api_key) ==
    IF file = NoFile THEN NeedFile
    ELSE IF question = <<>> THEN NeedPrompt
    ELSE IF ~(Truthy(api_key) \/ Truthy(openai_api_key)) THEN NeedKey
    ELSE "analyze"

NoAnalysis ==
    [warnings |-> <<>>, errors |-> <<>>, crashed |-> FALSE, request |-> <<>>,
     response |-> <<>>, shown |-> <<>>, download |-> <<>>, cached |-> {}]

\* The tables of the composer's check: two to MaxCols columns, headers of one to
\* MaxHeaderLines lines, no to MaxRows rows of numbers or of text.
HeaderWords == {<<"a">>, <<"b", "b">>}
Headers ==
    {JoinLines(<<w>> \o [k \in 1..n |-> <<"c">>]) :
        w \in HeaderWords, n \in 0..(MaxHeaderLines - 1)}
CellTexts == {<<"7">>, <<"w", "i", "d", "e", "r">>}
AnyTables ==
    {[columns |-> hs, rows |-> [r \in 1..n |-> [i \in 1..Len(hs) |-> c]]] :
        hs \in StringsOver(Headers, 2, MaxCols), n \in 0..MaxRows, c \in CellTexts}

\* Line 144, df.to_markdown(index=False), worked out once for each table.
data_str_of == [df \in {f.df : f \in Files} \cup AnyTables |-> to_markdown(df)]

\* The try block without its except clause: the exception ends the run.
Uncaught(result) == [result EXCEPT !.crashed = TRUE]

\* Lines 166-167: every exception of the try block ends in one st.error.
Caught(result) == [result EXCEPT !.errors = <<AnalysisError>>]

\* Lines 141-167: the try block.
Analyze(state, question, choice, api_key, openai_api_key, backend) ==
    IF "df" \notin DOMAIN state THEN Caught(NoAnalysis)
    ELSE
    LET data_str == data_str_of[state.df]
        agent == initialize_agent(choice, api_key, openai_api_key)
        called == [NoAnalysis EXCEPT
                     !.cached = {<<choice, api_key, openai_api_key>>},
                     !.request = <<[model |-> agent.model, api_key |-> agent.api_key,
                                    prompt |-> full_prompt(data_str, question)]>>]
    IN  IF backend.raised THEN Caught([called EXCEPT !.response = <<backend>>])
        ELSE LET rendered == [called EXCEPT !.response = <<backend>>,
                                            !.shown = <<backend.content>>]
                 export == ExportDocx(backend.content)
             IN  IF export.raised THEN Caught(rendered)
                 ELSE [rendered EXCEPT !.download = <<export.doc>>]

\* Lines 133-167: the button.
Button(pressed, file, state, question, choice, api_key, openai_api_key, backend) ==
    IF ~pressed THEN NoAnalysis
    ELSE LET branch == AnalyzeBranch(file, question, api_key, openai_api_key)
         IN  IF branch = "analyze"
             THEN Analyze(state, question, choice, api_key, openai_api_key, backend)
             ELSE [NoAnalysis EXCEPT !.warnings = <<branch>>]

Sidebar == {"selectbox", "text_input"}
AllWidgets == Sidebar \cup {"file_uploader", "text_area", "button"}

\* One run of the script, top to bottom, on the widget values given.  A widget
\* that a complete run does not render loses its value.
Rerun(choice, text, file, question, pressed, backend) ==
    LET api_key == api_key_of(choice, text)
        openai_api_key == openai_api_key_of(choice, text)
        loaded == LoadTable(file, session_state)
    IN  \E result \in {Button(pressed, file, loaded.state, question, choice, api_key,
                               openai_api_key, backend)} :
        /\ model_choice' = choice
        /\ key_text' = text
        /\ UNCHANGED <<DEFAULT_GOOGLE_API_KEY, DEFAULT_OPENAI_API_KEY>>
        /\ clicked' = pressed
        /\ IF NoCredential(api_key, openai_api_key)
           THEN \* lines 52-53: nothing below the sidebar runs
                /\ widgets' = Sidebar
                /\ warnings' = <<NeedKeySidebar>>
                /\ uploaded_file' = NoFile
                /\ user_prompt' = DefaultPrompt
                /\ errors' = <<>> /\ stopped' = FALSE /\ crashed' = FALSE
                /\ request' = <<>> /\ response' = <<>>
                /\ shown' = <<>> /\ download' = <<>>
                /\ UNCHANGED held
           ELSE /\ genai_key' = ConfigureGenai(choice, api_key, genai_key)
                /\ openai_key' = ConfigureOpenai(choice, api_key, openai_api_key, openai_key)
                /\ uploaded_file' = file
                /\ session_state' = loaded.state
                /\ IF loaded.raised
                   THEN \* lines 96-98: st.error, st.stop.  Whether the question
                        \* field, not rendered by a stopped run, keeps its text
                        \* is the framework's choice: either may happen.
                        /\ widgets' = Sidebar \cup {"file_uploader"}
                        /\ errors' = <<ReadError>> /\ stopped' = TRUE
                        /\ user_prompt' \in {question, DefaultPrompt}
                        /\ warnings' = <<>> /\ crashed' = FALSE
                        /\ request' = <<>> /\ response' = <<>>
                        /\ shown' = <<>> /\ download' = <<>>
                        /\ UNCHANGED agent_cache
                   ELSE /\ widgets' = AllWidgets
                        /\ user_prompt' = question
                        /\ stopped' = FALSE
                        /\ warnings' = result.warnings
                        /\ errors' = result.errors
                        /\ crashed' = result.crashed
                        /\ request' = result.request
                        /\ response' = result.response
                        /\ shown' = result.shown
                        /\ download' = result.download
                        /\ agent_cache' = agent_cache \cup result.cached

NoBackend == [raised |-> TRUE, content |-> <<>>]

\* The first run of a new session: every widget at its default, nothing held.
Init ==
    /\ DEFAULT_GOOGLE_API_KEY \in {None, "key1"}
    /\ DEFAULT_OPENAI_API_KEY \in {None, "key2"}
    /\ model_choice = Gemini
    /\ key_text = DefaultKeyText(Gemini, DEFAULT_GOOGLE_API_KEY, DEFAULT_OPENAI_API_KEY)
    /\ session_state = <<>>
    /\ genai_key = ConfigureGenai(Gemini, api_key_of(Gemini, key_text), None)
    /\ openai_key = None
    /\ agent_cache = {}
    /\ uploaded_file = NoFile
    /\ user_prompt = DefaultPrompt
    /\ clicked = FALSE
    /\ widgets = (IF NoCredential(api_key_of(Gemini, key_text), openai_api_key_of(Gemini, key_text))
                  THEN Sidebar ELSE AllWidgets)
    /\ warnings = (IF NoCredential(api_key_of(Gemini, key_text), openai_api_key_of(Gemini, key_text))
                   THEN <<NeedKeySidebar>> ELSE <<>>)
    /\ errors = <<>> /\ stopped = FALSE /\ crashed = FALSE
    /\ request = <<>> /\ response = <<>> /\ shown = <<>> /\ download = <<>>

\* The user picks the other model (line 27).  The credential field of the new
\* model is another widget (lines 35, 43) and starts at its default.
SelectModel ==
    \E choice \in Models \ {model_choice} :
        Rerun(choice, DefaultKeyText(choice, DEFAULT_GOOGLE_API_KEY, DEFAULT_OPENAI_API_KEY),
              uploaded_file, user_prompt, FALSE, NoBackend)

\* The user types into, or empties, the credential field (lines 35, 43).
EnterKey ==
    \E text \in (Keys \cup {""}) \ {key_text} :
        Rerun(model_choice, text, uploaded_file, user_prompt, FALSE, NoBackend)

\* The user puts a file into the uploader, in place of the one there (line 85).
Upload ==
    /\ "file_uploader" \in widgets
    /\ \E file \in Files \ {uploaded_file} :
           Rerun(model_choice, key_text, file, user_prompt, FALSE, NoBackend)

\* The user takes the file out of the uploader (line 85).
RemoveFile ==
    /\ "file_uploader" \in widgets
    /\ uploaded_file # NoFile
    /\ Rerun(model_choice, key_text, NoFile, user_prompt, FALSE, NoBackend)

\* The user edits the question (line 105).
EditPrompt ==
    /\ "text_area" \in widgets
    /\ \E question \in Questions \ {user_prompt} :
           Rerun(model_choice, key_text, uploaded_file, question, FALSE, NoBackend)

\* The user presses the analyze button (line 133); the backend answers or fails.
ClickAnalyze ==
    /\ "button" \in widgets
    /\ \E backend \in Backends :
           Rerun(model_choice, key_text, uploaded_file, user_prompt, TRUE, backend)

Next ==
    \/ SelectModel
    \/ EnterKey
    \/ Upload
    \/ RemoveFile
    \/ EditPrompt
    \/ ClickAnalyze

Spec == Init /\ [][Next]_vars

\* ------------------------------------------------------------- the phases

\* The credential of the selected model is present.
HasCredential == Truthy(key_text)

TableHeld == "df" \in DOMAIN session_state
FileLoaded == uploaded_file # NoFile /\ TableHeld
Idle == ~FileLoaded
PromptReady == FileLoaded /\ user_prompt # <<>>

\* The backend was called in the last run and raised / returned.
BackendRaised == response # <<>> /\ response[1].raised
BackendReturned == response # <<>> /\ ~response[1].raised

\* ------------------------------------------------------------- the claims

\* C1: after a second upload, every analysis builds its prompt from the table
\* of the file now in the uploader, never from an earlier file's table.
C1_PromptFromUploadedFile ==
    request # <<>> =>
        /\ read_excel(uploaded_file).raised = FALSE
        /\ request[1].prompt =
               full_prompt(data_str_of[read_excel(uploaded_file).df], user_prompt)

\* C2: when the backend call raises, the run does not crash, shows exactly one
\* error message and nothing else, leaves the held table, the file and the
\* question as they were, and ends in PromptReady with the button rendered.
C2_BackendErrorIsRetryable ==
    [][BackendRaised' =>
          /\ ~crashed' /\ ~stopped'
          /\ errors' = <<AnalysisError>> /\ warnings' = <<>>
          /\ session_state' = session_state
          /\ uploaded_file' = uploaded_file
          /\ user_prompt' = user_prompt
          /\ PromptReady' /\ "button" \in widgets']_vars

C2_Witness ==
    /\ BackendRaised /\ clicked
    /\ errors = <<AnalysisError>>
    /\ user_prompt = <<"w", "h", "y", "?">>
    /\ session_state.df = TableB

\* C3: no partial result: whenever the result text is on the page, the
\* document is offered and no error is reported.
C3_NoPartialResult ==
    shown # <<>> => (download # <<>> /\ errors = <<>>)

\* C4: a prompt is sent only with a table held and a non-empty question; the
\* button pressed with no file or with an empty question gives one warning and
\* no backend call.
C4_RequestNeedsTableAndQuestion ==
    /\ request # <<>> => (TableHeld /\ uploaded_file # NoFile /\ user_prompt # <<>>)
    /\ (clicked /\ (uploaded_file = NoFile \/ user_prompt = <<>>)) =>
           /\ request = <<>> /\ response = <<>>
           /\ warnings \in {<<NeedFile>>, <<NeedPrompt>>}

C4_Witness ==
    /\ clicked /\ TableHeld /\ uploaded_file # NoFile /\ user_prompt = <<>>
    /\ warnings = <<NeedPrompt>> /\ request = <<>>

\* C5: with no credential for the selected model no backend call is issued and
\* the run only warns (no error, no stop, the credential field still there);
\* with a credential the controls are back and the button can be pressed.
C5_NoCallWithoutCredential ==
    /\ ~HasCredential =>
           /\ request = <<>> /\ response = <<>>
           /\ warnings = <<NeedKeySidebar>> /\ errors = <<>>
           /\ ~crashed /\ ~stopped
           /\ "text_input" \in widgets
    /\ HasCredential => "file_uploader" \in widgets
    /\ (HasCredential /\ ~stopped) => "button" \in widgets

\* A session that started without any credential has made a backend call.
C5_Witness ==
    /\ DEFAULT_GOOGLE_API_KEY = None /\ DEFAULT_OPENAI_API_KEY = None
    /\ request # <<>> /\ BackendReturned

\* C6: at the time of a request, nothing the program holds carries a
\* credential of the model that is not selected: the request does not, the
\* other library's global does not, no cached agent does.
C6_PreviousCredentialCleared ==
    request # <<>> =>
        /\ request[1].api_key = key_text
        /\ model_choice = OpenAI => genai_key = None
        /\ model_choice = Gemini => openai_key = None
        /\ \A args \in agent_cache : args[1] = model_choice

\* C7: a malformed file in the uploader always gives the read error and halts
\* the run: no analysis, and the uploader still rendered.
C7_MalformedUploadHalts ==
    (uploaded_file # NoFile /\ read_excel(uploaded_file).raised) =>
        /\ errors = <<ReadError>> /\ stopped
        /\ request = <<>>
        /\ "file_uploader" \in widgets

\* C8: when the backend returns T, T is what is displayed, and the document
\* offered is one heading and one body paragraph whose text is T.
C8_ResultAndDocumentAreT ==
    BackendReturned =>
        /\ shown = <<response[1].content>>
        /\ Len(download) = 1
        /\ Len(download[1]) = 2
        /\ download[1][1] = [style |-> "Title", run |-> <<HeadingText>>]
        /\ download[1][2].style = "Normal"
        /\ ParagraphText(download[1][2]) = response[1].content

\* ----------------------------------------------- the composer on any table

\* The questions of the composer's check: any non-empty text.
AnyQuestions == StringsOver({"q"}, 1, MaxQuestionLen)

AnyWorkbook(df) == [name |-> "any.xlsx", parses |-> TRUE, df |-> df]

\* A session with a credential in which a workbook holding any table has been
\* uploaded and any question typed.
InitCompose ==
    \E df \in AnyTables, question \in AnyQuestions :
        /\ DEFAULT_GOOGLE_API_KEY = "key1"
        /\ DEFAULT_OPENAI_API_KEY = None
        /\ model_choice = Gemini
        /\ key_text = "key1"
        /\ session_state = [k \in {"df"} |-> df]
        /\ genai_key = "key1"
        /\ openai_key = None
        /\ agent_cache = {}
        /\ uploaded_file = AnyWorkbook(df)
        /\ user_prompt = question
        /\ clicked = FALSE
        /\ widgets = AllWidgets
        /\ warnings = <<>>
        /\ errors = <<>> /\ stopped = FALSE /\ crashed = FALSE
        /\ request = <<>> /\ response = <<>> /\ shown = <<>> /\ download = <<>>

\* The analyze button, with a backend that answers "ok".
ComposeAndSend ==
    /\ "button" \in widgets
    /\ Rerun(model_choice, key_text, uploaded_file, user_prompt, TRUE,
             [raised |-> FALSE, content |-> <<"o", "k">>])

SpecCompose == InitCompose /\ [][ComposeAndSend]_vars

\* The prompt of the last run's request, in its three parts.
PromptQuestion(p, q) == SubSeq(p, Len(p) - Len(q) + 1, Len(p))
PromptTable(p, q) == SubSeq(p, 2, Len(p) - Len(q) - 1)
PromptFrame(p, q) ==
    /\ Len(p) >= Len(q) + 2
    /\ p[1] = Preamble
    /\ p[Len(p) - Len(q)] = QuestionLabel
    /\ PromptQuestion(p, q) = q

\* C9 as stated: the prompt is the preamble, a table rendering that holds every
\* column header verbatim, the question label and the question verbatim.
C9_EveryHeaderVerbatim ==
    request # <<>> =>
        /\ PromptFrame(request[1].prompt, user_prompt)
        /\ \A i \in 1..Len(session_state.df.columns) :
               Occurs(session_state.df.columns[i],
                      PromptTable(request[1].prompt, user_prompt))

\* C9 as amended: the same frame; the rendering holds every line of every
\* column header, so a header with no line break verbatim.
C9_EveryHeaderLineVerbatim ==
    request # <<>> =>
        /\ PromptFrame(request[1].prompt, user_prompt)
        /\ \A i \in 1..Len(session_state.df.columns) :
               \A k \in 1..Len(SplitLines(session_state.df.columns[i])) :
                   Occurs(SplitLines(session_state.df.columns[i])[k],
                          PromptTable(request[1].prompt, user_prompt))

C9_Witness ==
    /\ request # <<>>
    /\ Len(session_state.df.columns) >= 2
    /\ session_state.df.rows # <<>>
    /\ \E i \in 1..Len(session_state.df.columns) :
           /\ Len(SplitLines(session_state.df.columns[i])) = 1
           /\ Occurs(session_state.df.columns[i], PromptTable(request[1].prompt, user_prompt))
    /\ Len(user_prompt) > 1

\* ------------------------------------------------------- C10, the phases

UploadReachesFileLoaded == Upload /\ FileLoaded'
QuestionReachesPromptReady == EditPrompt /\ PromptReady'

\* C10 as stated: the credential guards only the trigger; from Idle an upload
\* reaches FileLoaded and a question then PromptReady, credential or not.
C10_CredentialGuardsOnlyTrigger ==
    /\ Idle => ENABLED UploadReachesFileLoaded
    /\ (FileLoaded /\ ~PromptReady) => ENABLED QuestionReachesPromptReady
    /\ ENABLED ClickAnalyze => HasCredential

\* C10 as amended: the credential guards every step: with it the steps are as
\* stated, without it no control below the sidebar is rendered.
C10_CredentialGuardsEveryStep ==
    /\ (HasCredential /\ Idle) => ENABLED UploadReachesFileLoaded
    /\ (FileLoaded /\ ~PromptReady) => ENABLED QuestionReachesPromptReady
    /\ ENABLED ClickAnalyze => HasCredential
    /\ ~HasCredential =>
           /\ widgets = Sidebar
           /\ ~ENABLED Upload /\ ~ENABLED EditPrompt /\ ~ENABLED ClickAnalyze

\* A table was loaded, the credential was then emptied: the controls are gone.
C10_Witness ==
    /\ TableHeld /\ ~HasCredential
    /\ widgets = Sidebar

====
